---- MODULE Spec2Model ----
(***************************************************************************)
(* Model of the commit-utility binary                                      *)
(* (crates/proof-of-sql/utils/commit-utility/main.rs): one invocation of   *)
(* main, from the parsed command line to process exit.                     *)
(*                                                                         *)
(* Strings (paths, scheme names) are sequences of Unicode code points,      *)
(* byte buffers and file contents are sequences of integers, Option<T> is  *)
(* a sequence of length 0 (None) or 1 (Some).                              *)
(***************************************************************************)
EXTENDS Integers, Sequences, FiniteSets, TLC

VARIABLES
    cli,            \* the parsed arguments: [input, output, scheme]
    fs,             \* the file system: path -> None | Some(bytes)
    fs0,            \* the file system as it was when the run began (history)
    stdin,          \* the bytes standard input will deliver
    stdout,         \* the bytes standard output has received from this run
    stdout_buf,     \* bytes held in the process's line-buffered stdout handle
    stdout_writable,\* descriptor 1 is open for writing
    pc,             \* position of main
    input_data,     \* the buffer read by input acquisition
    strategy,       \* the arm of the scheme match that was selected
    human_readable, \* the rendered text
    result,         \* what main returned
    handles,        \* the open File values
    exit_code,      \* process exit status, -1 while running
    trace,          \* the stages that have executed, in order (history)
    failed_op       \* the operation whose failure ended the run (history)

vars == <<cli, fs, fs0, stdin, stdout, stdout_buf, stdout_writable, pc, input_data, strategy,
          human_readable, result, handles, exit_code, trace, failed_op>>

----------------------------------------------------------------------------
(* Bounds *)

MaxBytes == 2

----------------------------------------------------------------------------
(* Values *)

None == <<>>

Some(x) == <<x>>

ByteValues == {0, 1}

RECURSIVE SeqsUpTo(_, _)
SeqsUpTo(S, n) ==
    IF n = 0 THEN {<<>>}
    ELSE LET shorter == SeqsUpTo(S, n - 1)
         IN  shorter \cup {Append(s, x) : s \in {t \in shorter : Len(t) = n - 1}, x \in S}

Bytes == SeqsUpTo(ByteValues, MaxBytes)

\* "a" and "b"
Paths == { <<97>>, <<98>> }

SchemeStrings ==
    { \* "dory"
      <<100,111,114,121>>,
      \* "DORY"
      <<68,79,82,89>>,
      \* "Dory"
      <<68,111,114,121>>,
      \* "ipa"
      <<105,112,97>>,
      \* "IPA"
      <<73,80,65>>,
      \* "InnerProductArgument"
      <<73,110,110,101,114,80,114,111,100,117,99,116,65,114,103,117,109,101,110,116>>,
      \* "dynamic_dory"
      <<100,121,110,97,109,105,99,95,100,111,114,121>>,
      \* "Dynamic-Dory"
      <<68,121,110,97,109,105,99,45,68,111,114,121>>,
      \* ""
      <<>>,
      \* "dor"
      <<100,111,114>>,
      \* "dorys"
      <<100,111,114,121,115>>,
      \* "DORY "
      <<68,79,82,89,32>>,
      \* "dynamic"
      <<100,121,110,97,109,105,99>>,
      \* "inner_product_argument"
      <<105,110,110,101,114,95,112,114,111,100,117,99,116,95,97,114,103,117,109,101,110,116>>,
      \* "xipa"
      <<120,105,112,97>>,
      \* "dynamicdory"
      <<100,121,110,97,109,105,99,100,111,114,121>>,
      \* "not-a-scheme"
      <<110,111,116,45,97,45,115,99,104,101,109,101>>,
      \* "Not-A-Scheme"
      <<78,111,116,45,65,45,83,99,104,101,109,101>>,
      \* A with diaeresis
      <<196>>,
      \* I with dot above, then PA
      <<304,80,65>>,
      \* I with dot above, then pa
      <<304,112,97>>,
      \* DOR, then Greek capital upsilon
      <<68,79,82,933>>,
      \* Greek capital sigma, alpha, sigma
      <<931,913,931>>,
      \* Kelvin sign
      <<8490>> }

Pending == [kind |-> "Pending", arg |-> <<>>]

Ok == [kind |-> "Ok", arg |-> <<>>]

Err(kind, arg) == [kind |-> kind, arg |-> arg]

InputErrors == {"OpenInputFile", "ReadInputFile", "ReadStdin"}

OutputErrors == {"CreateOutputFile", "WriteOutputFile", "WriteStdout"}

ErrorKinds ==
    InputErrors \cup OutputErrors \cup {"DeserializationError", "UnknownScheme"}

Prefix(s, k) == SubSeq(s, 1, k)

----------------------------------------------------------------------------
(* Pure functions *)

\* the code points the strings of the model are drawn from: Basic Latin,
\* Latin-1 Supplement, Latin Extended-A, Greek, Cyrillic, the combining dot
\* above, the Kelvin sign and the Angstrom sign
Chars ==
    (0..383) \cup (913..929) \cup (931..969) \cup (1024..1119) \cup {775, 8490, 8491}

\* lo <= c <= hi
In(c, lo, hi) == lo <= c /\ c <= hi

\* char::to_lowercase, on Chars, for every code point but the Greek capital
\* sigma: one code point, or two for the capital I with dot above
LowerChar(c) ==
    IF In(c, 65, 90) \/ In(c, 192, 214) \/ In(c, 216, 222) THEN <<c + 32>>
    ELSE IF c = 304 THEN <<105, 775>>
    ELSE IF (In(c, 256, 303) \/ In(c, 306, 311) \/ In(c, 330, 375)) /\ c % 2 = 0
    THEN <<c + 1>>
    ELSE IF (In(c, 313, 328) \/ In(c, 377, 382)) /\ c % 2 = 1 THEN <<c + 1>>
    ELSE IF c = 376 THEN <<255>>
    ELSE IF In(c, 913, 929) \/ In(c, 932, 939) THEN <<c + 32>>
    ELSE IF In(c, 1024, 1039) THEN <<c + 80>>
    ELSE IF In(c, 1040, 1071) THEN <<c + 32>>
    ELSE IF c = 8490 THEN <<107>>
    ELSE IF c = 8491 THEN <<229>>
    ELSE <<c>>

\* char::is_cased, on Chars
IsCased(c) ==
    \/ In(c, 65, 90) \/ In(c, 97, 122) \/ c \in {170, 181, 186}
    \/ In(c, 192, 214) \/ In(c, 216, 246) \/ In(c, 248, 383)
    \/ In(c, 913, 929) \/ In(c, 931, 969) \/ In(c, 1024, 1119)
    \/ c \in {8490, 8491}

\* char::is_case_ignorable, on Chars
IsCaseIgnorable(c) ==
    c \in {39, 46, 58, 94, 96, 168, 173, 175, 180, 183, 184, 775}

\* the first code point of s that is not case ignorable exists and is cased
RECURSIVE CaseIgnorableThenCased(_)
CaseIgnorableThenCased(s) ==
    IF Len(s) = 0 THEN FALSE
    ELSE IF IsCaseIgnorable(Head(s)) THEN CaseIgnorableThenCased(Tail(s))
    ELSE IsCased(Head(s))

Reverse(s) == [i \in DOMAIN s |-> s[Len(s) + 1 - i]]

\* the lowercase form of the capital sigma at position i of s: the final sigma
\* when a cased letter comes before it and none comes after it
LowerSigma(s, i) ==
    IF /\ CaseIgnorableThenCased(Reverse(SubSeq(s, 1, i - 1)))
       /\ ~CaseIgnorableThenCased(SubSeq(s, i + 1, Len(s)))
    THEN <<962>>
    ELSE <<963>>

RECURSIVE LowerFrom(_, _)
LowerFrom(s, i) ==
    IF i > Len(s) THEN <<>>
    ELSE (IF s[i] = 931 THEN LowerSigma(s, i) ELSE LowerChar(s[i]))
         \o LowerFrom(s, i + 1)

\* ToLowercase with a seeded fault: the scheme is matched as typed
ToLowercaseIdentity(s) == s

\* cli.scheme.to_lowercase()
ToLowercase(s) == LowerFrom(s, 1)

\* the patterns of the match on the lowercased scheme; "_" is the wildcard arm
SchemeMatch(lowered) ==
    \* "dynamic_dory" | "dynamic-dory"
    IF lowered \in { <<100,121,110,97,109,105,99,95,100,111,114,121>>,
                     <<100,121,110,97,109,105,99,45,100,111,114,121>> }
    THEN "DynamicDory"
    \* "dory"
    ELSE IF lowered = <<100,111,114,121>>
    THEN "Dory"
    \* "ipa" | "innerproductargument"
    ELSE IF lowered \in { <<105,112,97>>,
                          <<105,110,110,101,114,112,114,111,100,117,99,116,97,114,103,117,109,101,110,116>> }
    THEN "InnerProductArgument"
    ELSE "_"

\* bytes one column commitment occupies on the wire under a strategy
Width(strat) == IF strat = "InnerProductArgument" THEN 1 ELSE 2

\* postcard::from_bytes::<TableCommitment<C>>: a count of columns, then that
\* many commitments of the strategy's width; None when the bytes run out.
Decode(strat, bytes) ==
    IF Len(bytes) = 0 THEN None
    ELSE LET n == bytes[1]
             w == Width(strat)
         IN  IF Len(bytes) < 1 + n * w THEN None
             ELSE Some([scheme  |-> strat,
                        columns |-> [i \in 1..n |->
                            SubSeq(bytes, 2 + (i - 1) * w, 1 + i * w)]])

RECURSIVE RenderColumns(_)
RenderColumns(cols) ==
    IF Len(cols) = 0 THEN <<>>
    ELSE [i \in DOMAIN Head(cols) |-> 48 + Head(cols)[i]] \o <<10>>
         \o RenderColumns(Tail(cols))

\* format!("{commitment:#?}").as_bytes(): a header line naming the commitment
\* type, one line per column, a closing brace with no newline after it.
Render(value) ==
    << (IF value.scheme = "InnerProductArgument" THEN 73
        ELSE IF value.scheme = "Dory" THEN 68 ELSE 89), 123, 10 >>
    \o RenderColumns(value.columns) \o <<125>>

\* the value of the match expression on a scheme string and a buffer: the
\* rendered text, or the error the match returns with
DecodeOutcome(scheme, bytes) ==
    LET arm == SchemeMatch(ToLowercase(scheme))
    IN  IF arm = "_" THEN Err("UnknownScheme", scheme)
        ELSE LET commitment == Decode(arm, bytes)
             IN  IF commitment = None THEN Err("DeserializationError", <<>>)
                 ELSE [kind |-> "Text", arg |-> Render(commitment[1])]

\* LineWriter: the length of the part of buf up to and including its last
\* newline (0 when it has none)
LinesLen(buf) ==
    IF \E i \in DOMAIN buf : buf[i] = 10
    THEN CHOOSE i \in DOMAIN buf : buf[i] = 10 /\ \A j \in DOMAIN buf : buf[j] = 10 => j <= i
    ELSE 0

\* the capacity of the stdout handle's buffer
StdoutCapacity == 1024

\* LineWriter::write_all: how many bytes of buf are passed through to the
\* descriptor: the lines, and also what follows them when it would fill the buffer
ThroughLen(buf) ==
    IF Len(buf) - LinesLen(buf) >= StdoutCapacity THEN Len(buf) ELSE LinesLen(buf)

----------------------------------------------------------------------------
(* The state after Cli::parse() *)

Options(S) == {None} \cup {Some(x) : x \in S}

Init ==
    /\ cli \in [input : Options(Paths), output : Options(Paths), scheme : SchemeStrings]
    /\ fs \in [Paths -> Options(Bytes)]
    \* main touches no path but cli.input and cli.output: the others are left
    \* absent
    /\ \A p \in Paths : (cli.input # Some(p) /\ cli.output # Some(p)) => fs[p] = None
    /\ fs0 = fs
    /\ stdin \in Bytes
    /\ stdout = <<>>
    /\ stdout_buf = <<>>
    \* main touches descriptor 1 only without --output
    /\ stdout_writable \in (IF cli.output = None THEN BOOLEAN ELSE {TRUE})
    /\ pc = "input"
    /\ input_data = <<>>
    /\ strategy = "_"
    /\ human_readable = <<>>
    /\ result = Pending
    /\ handles = {}
    /\ exit_code = -1
    /\ trace = <<>>
    /\ failed_op = "none"

----------------------------------------------------------------------------
(* Input acquisition *)

\* OpenInput with a seeded fault: a failed open is swallowed and the run goes on with an
\* empty buffer
OpenInputSwallow ==
    /\ pc = "input"
    /\ cli.input # None
    /\ trace' = Append(trace, "input")
    /\ LET input_file == cli.input[1]
       IN  \/ /\ fs[input_file] # None
              /\ handles' = handles \cup {<<"input", input_file>>}
              /\ pc' = "input_opened"
           \/ /\ fs[input_file] = None
              /\ pc' = "resolve"
              /\ UNCHANGED handles
    /\ UNCHANGED <<cli, stdout_writable, fs, fs0, stdin, stdout, stdout_buf, input_data, strategy,
                   human_readable, result, exit_code, failed_op>>

\* OpenInput with a seeded fault: the input file is opened for writing with truncation
OpenInputTruncates ==
    /\ pc = "input"
    /\ cli.input # None
    /\ trace' = Append(trace, "input")
    /\ LET input_file == cli.input[1]
       IN  \/ /\ fs[input_file] # None
              /\ fs' = [fs EXCEPT ![input_file] = Some(<<>>)]
              /\ handles' = handles \cup {<<"input", input_file>>}
              /\ pc' = "input_opened"
              /\ UNCHANGED <<result, failed_op>>
           \/ /\ result' = Err("OpenInputFile", input_file)
              /\ failed_op' = "open"
              /\ pc' = "returned"
              /\ UNCHANGED <<fs, handles>>
    /\ UNCHANGED <<cli, stdout_writable, fs0, stdin, stdout, stdout_buf, input_data, strategy,
                   human_readable, exit_code>>

\* File::open(input_file) and its map_err
OpenInput ==
    /\ pc = "input"
    /\ cli.input # None
    /\ trace' = Append(trace, "input")
    /\ LET input_file == cli.input[1]
       IN  \/ /\ fs[input_file] # None
              /\ handles' = handles \cup {<<"input", input_file>>}
              /\ pc' = "input_opened"
              /\ UNCHANGED <<result, failed_op>>
           \/ /\ result' = Err("OpenInputFile", input_file)
              /\ failed_op' = "open"
              /\ pc' = "returned"
              /\ UNCHANGED handles
    /\ UNCHANGED <<cli, stdout_writable, fs, fs0, stdin, stdout, stdout_buf, input_data, strategy,
                   human_readable, exit_code>>

\* ReadInput with a seeded fault: the file stays open when the arm is left
ReadInputLeak ==
    /\ pc = "input_opened"
    /\ LET input_file == cli.input[1]
       IN  \/ /\ input_data' = fs[input_file][1]
              /\ pc' = "resolve"
              /\ UNCHANGED <<result, failed_op>>
           \/ /\ result' = Err("ReadInputFile", input_file)
              /\ failed_op' = "read"
              /\ pc' = "returned"
              /\ UNCHANGED input_data
    /\ UNCHANGED <<cli, stdout_writable, fs, fs0, stdin, stdout, stdout_buf, strategy,
                   human_readable, handles, exit_code, trace>>

\* ReadInput with a seeded fault: a failed read is reported with the open's variant
ReadInputWrongVariant ==
    /\ pc = "input_opened"
    /\ LET input_file == cli.input[1]
       IN  /\ handles' = handles \ {<<"input", input_file>>}
           /\ \/ /\ input_data' = fs[input_file][1]
                 /\ pc' = "resolve"
                 /\ UNCHANGED <<result, failed_op>>
              \/ /\ result' = Err("OpenInputFile", input_file)
                 /\ failed_op' = "read"
                 /\ pc' = "returned"
                 /\ UNCHANGED input_data
    /\ UNCHANGED <<cli, stdout_writable, fs, fs0, stdin, stdout, stdout_buf, strategy,
                   human_readable, exit_code, trace>>

\* file.read_to_end(&mut buffer), its map_err, and the end of the arm's block,
\* where file is dropped
ReadInput ==
    /\ pc = "input_opened"
    /\ LET input_file == cli.input[1]
       IN  /\ handles' = handles \ {<<"input", input_file>>}
           /\ \/ /\ input_data' = fs[input_file][1]
                 /\ pc' = "resolve"
                 /\ UNCHANGED <<result, failed_op>>
              \/ /\ result' = Err("ReadInputFile", input_file)
                 /\ failed_op' = "read"
                 /\ pc' = "returned"
                 /\ UNCHANGED input_data
    /\ UNCHANGED <<cli, stdout_writable, fs, fs0, stdin, stdout, stdout_buf, strategy,
                   human_readable, exit_code, trace>>

\* io::stdin().read_to_end(&mut buffer) and its map_err
ReadStdin ==
    /\ pc = "input"
    /\ cli.input = None
    /\ trace' = Append(trace, "input")
    /\ \/ /\ input_data' = stdin
          /\ pc' = "resolve"
          /\ UNCHANGED <<result, failed_op>>
       \/ /\ result' = Err("ReadStdin", <<>>)
          /\ failed_op' = "stdin_read"
          /\ pc' = "returned"
          /\ UNCHANGED input_data
    /\ UNCHANGED <<cli, stdout_writable, fs, fs0, stdin, stdout, stdout_buf, strategy,
                   human_readable, handles, exit_code>>

----------------------------------------------------------------------------
(* Scheme resolution and decoding *)

\* Resolve with a seeded fault: UnknownScheme carries the lowercased string
ResolveCarriesLowered ==
    /\ pc = "resolve"
    /\ trace' = Append(trace, "resolve")
    /\ LET arm == SchemeMatch(ToLowercase(cli.scheme))
       IN  IF arm = "_"
           THEN /\ result' = Err("UnknownScheme", ToLowercase(cli.scheme))
                /\ failed_op' = "match"
                /\ pc' = "returned"
                /\ UNCHANGED strategy
           ELSE /\ strategy' = arm
                /\ pc' = "decode"
                /\ UNCHANGED <<result, failed_op>>
    /\ UNCHANGED <<cli, stdout_writable, fs, fs0, stdin, stdout, stdout_buf, input_data,
                   human_readable, handles, exit_code>>

\* match cli.scheme.to_lowercase().as_str(): the arm taken
Resolve ==
    /\ pc = "resolve"
    /\ trace' = Append(trace, "resolve")
    /\ LET arm == SchemeMatch(ToLowercase(cli.scheme))
       IN  IF arm = "_"
           THEN /\ result' = Err("UnknownScheme", cli.scheme)
                /\ failed_op' = "match"
                /\ pc' = "returned"
                /\ UNCHANGED strategy
           ELSE /\ strategy' = arm
                /\ pc' = "decode"
                /\ UNCHANGED <<result, failed_op>>
    /\ UNCHANGED <<cli, stdout_writable, fs, fs0, stdin, stdout, stdout_buf, input_data,
                   human_readable, handles, exit_code>>

\* DecodeRender with a seeded fault: the header line is printed before decoding is known
\* to have succeeded
DecodeRenderEmitsHeader ==
    /\ pc = "decode"
    /\ trace' = Append(trace, "decode")
    /\ LET commitment == Decode(strategy, input_data)
       IN  IF commitment = None
           THEN /\ result' = Err("DeserializationError", <<>>)
                /\ failed_op' = "from_bytes"
                /\ pc' = "returned"
                /\ stdout' = stdout \o <<123, 10>>
                /\ UNCHANGED human_readable
           ELSE /\ human_readable' = Render(commitment[1])
                /\ pc' = "output"
                /\ UNCHANGED <<result, failed_op, stdout>>
    /\ UNCHANGED <<cli, stdout_writable, fs, fs0, stdin, stdout_buf, input_data, strategy,
                   handles, exit_code>>

\* the body of the arm: postcard::from_bytes, its map_err, format!
DecodeRender ==
    /\ pc = "decode"
    /\ trace' = Append(trace, "decode")
    /\ LET commitment == Decode(strategy, input_data)
       IN  IF commitment = None
           THEN /\ result' = Err("DeserializationError", <<>>)
                /\ failed_op' = "from_bytes"
                /\ pc' = "returned"
                /\ UNCHANGED human_readable
           ELSE /\ human_readable' = Render(commitment[1])
                /\ pc' = "output"
                /\ UNCHANGED <<result, failed_op>>
    /\ UNCHANGED <<cli, stdout_writable, fs, fs0, stdin, stdout, stdout_buf, input_data, strategy,
                   handles, exit_code>>

----------------------------------------------------------------------------
(* Output emission *)

\* CreateOutput with a seeded fault: the file is opened for appending, not truncated
CreateOutputAppend ==
    /\ pc = "output"
    /\ cli.output # None
    /\ trace' = Append(trace, "output")
    /\ LET output_file == cli.output[1]
       IN  \/ /\ fs' = [fs EXCEPT ![output_file] =
                           IF fs[output_file] = None THEN Some(<<>>) ELSE fs[output_file]]
              /\ handles' = handles \cup {<<"output", output_file>>}
              /\ pc' = "output_created"
              /\ UNCHANGED <<result, failed_op>>
           \/ /\ result' = Err("CreateOutputFile", output_file)
              /\ failed_op' = "create"
              /\ pc' = "returned"
              /\ UNCHANGED <<fs, handles>>
    /\ UNCHANGED <<cli, stdout_writable, fs0, stdin, stdout, stdout_buf, input_data, strategy,
                   human_readable, exit_code>>

\* File::create(output_file) and its map_err: creates the file or truncates it
CreateOutput ==
    /\ pc = "output"
    /\ cli.output # None
    /\ trace' = Append(trace, "output")
    /\ LET output_file == cli.output[1]
       IN  \/ /\ fs' = [fs EXCEPT ![output_file] = Some(<<>>)]
              /\ handles' = handles \cup {<<"output", output_file>>}
              /\ pc' = "output_created"
              /\ UNCHANGED <<result, failed_op>>
           \/ /\ result' = Err("CreateOutputFile", output_file)
              /\ failed_op' = "create"
              /\ pc' = "returned"
              /\ UNCHANGED <<fs, handles>>
    /\ UNCHANGED <<cli, stdout_writable, fs0, stdin, stdout, stdout_buf, input_data, strategy,
                   human_readable, exit_code>>

\* WriteOutput with a seeded fault: a failed write removes the file it created
WriteOutputCleansUp ==
    /\ pc = "output_created"
    /\ LET output_file == cli.output[1]
       IN  /\ handles' = handles \ {<<"output", output_file>>}
           /\ \/ /\ fs' = [fs EXCEPT ![output_file] = Some(fs[output_file][1] \o human_readable)]
                 /\ result' = Ok
                 /\ UNCHANGED failed_op
              \/ /\ fs' = [fs EXCEPT ![output_file] = None]
                 /\ result' = Err("WriteOutputFile", output_file)
                 /\ failed_op' = "write"
    /\ pc' = "returned"
    /\ UNCHANGED <<cli, stdout_writable, fs0, stdin, stdout, stdout_buf, input_data, strategy,
                   human_readable, exit_code, trace>>

\* file.write_all(human_readable.as_bytes()), its map_err, the end of the arm's
\* block, where file is dropped, and Ok(()). A failed write_all has written
\* fewer bytes than it was given.
WriteOutput ==
    /\ pc = "output_created"
    /\ LET output_file == cli.output[1]
       IN  /\ handles' = handles \ {<<"output", output_file>>}
           /\ \/ /\ fs' = [fs EXCEPT ![output_file] = Some(fs[output_file][1] \o human_readable)]
                 /\ result' = Ok
                 /\ UNCHANGED failed_op
              \/ \E k \in 0..(Len(human_readable) - 1) :
                    /\ fs' = [fs EXCEPT ![output_file] =
                                 Some(fs[output_file][1] \o Prefix(human_readable, k))]
                    /\ result' = Err("WriteOutputFile", output_file)
                    /\ failed_op' = "write"
    /\ pc' = "returned"
    /\ UNCHANGED <<cli, stdout_writable, fs0, stdin, stdout, stdout_buf, input_data, strategy,
                   human_readable, exit_code, trace>>

\* io::stdout().write_all(human_readable.as_bytes()), its map_err, and Ok(()).
\* std's Stdout is a LineWriter: write_all writes the part of the text up to
\* and including its last newline through to the descriptor, failing if that
\* fails, and keeps what follows the last newline in the handle's buffer
\* (unless it would fill the buffer). A descriptor that is not open for
\* writing fails every write with EBADF, which the handle reports as success.
WriteStdout ==
    /\ pc = "output"
    /\ cli.output = None
    /\ trace' = Append(trace, "output")
    /\ LET n == ThroughLen(human_readable)
       IN  \/ /\ stdout' = IF stdout_writable THEN stdout \o Prefix(human_readable, n)
                           ELSE stdout
              /\ stdout_buf' = SubSeq(human_readable, n + 1, Len(human_readable))
              /\ result' = Ok
              /\ UNCHANGED failed_op
           \/ /\ stdout_writable
              /\ \E k \in 0..(n - 1) :
                    /\ stdout' = stdout \o Prefix(human_readable, k)
                    /\ result' = Err("WriteStdout", <<>>)
                    /\ failed_op' = "stdout_write"
                    /\ UNCHANGED stdout_buf
    /\ pc' = "returned"
    /\ UNCHANGED <<cli, stdout_writable, fs, fs0, stdin, input_data, strategy, human_readable,
                   handles, exit_code>>

----------------------------------------------------------------------------
(* Process exit *)

\* main has returned its CommitUtilityResult<()>: the runtime turns Ok(())
\* into status 0 and an Err into status 1, and on the way out flushes what
\* the stdout handle still buffers. main itself never flushes, and the
\* outcome of the runtime's flush is discarded: when it fails the buffered
\* bytes are lost and the status is what it was.
Exit ==
    /\ pc = "returned"
    /\ exit_code' = IF result = Ok THEN 0 ELSE 1
    /\ \/ /\ stdout_writable
          /\ stdout' = stdout \o stdout_buf
       \/ /\ stdout_writable
          /\ \E k \in 0..(Len(stdout_buf) - 1) :
                stdout' = stdout \o Prefix(stdout_buf, k)
       \/ /\ ~stdout_writable
          /\ stdout' = stdout
    /\ stdout_buf' = <<>>
    /\ pc' = "exited"
    /\ UNCHANGED <<cli, stdout_writable, fs, fs0, stdin, input_data, strategy, human_readable,
                   result, handles, trace, failed_op>>

Next ==
    \/ OpenInput
    \/ ReadInput
    \/ ReadStdin
    \/ Resolve
    \/ DecodeRender
    \/ CreateOutput
    \/ WriteOutput
    \/ WriteStdout
    \/ Exit

Spec == Init /\ [][Next]_vars

----------------------------------------------------------------------------
(* Vocabulary of the properties *)

Range(f) == {f[i] : i \in DOMAIN f}

Stages == <<"input", "resolve", "decode", "output">>

StageOf(kind) ==
    IF kind \in InputErrors THEN "input"
    ELSE IF kind = "UnknownScheme" THEN "resolve"
    ELSE IF kind = "DeserializationError" THEN "decode"
    ELSE "output"

EarlyErrors == InputErrors \cup {"UnknownScheme", "DeserializationError"}

\* c is l, or the upper-case form of the letter l (a to z; the Kelvin sign is
\* an upper-case form of k as well)
IsCaseOf(c, l) ==
    \/ c = l
    \/ l \in 97..122 /\ c = l - 32
    \/ l = 107 /\ c = 8490

\* s and t are equal up to the case of their letters a to z
EqIgnoreCase(s, t) ==
    /\ Len(s) = Len(t)
    /\ \A i \in DOMAIN s : IsCaseOf(s[i], t[i]) \/ IsCaseOf(t[i], s[i])

\* "dynamic_dory", "dynamic-dory"
DynamicDoryAliases ==
    { <<100,121,110,97,109,105,99,95,100,111,114,121>>,
      <<100,121,110,97,109,105,99,45,100,111,114,121>> }

\* "dory"
DoryAliases == { <<100,111,114,121>> }

\* "ipa", "innerproductargument"
IpaAliases ==
    { <<105,112,97>>,
      <<105,110,110,101,114,112,114,111,100,117,99,116,97,114,103,117,109,101,110,116>> }

\* s, lowercased, is one of the aliases
IsAlias(s, aliases) ==
    \E a \in aliases : Len(s) = Len(a) /\ \A i \in DOMAIN s : IsCaseOf(s[i], a[i])

KnownScheme(s) ==
    IsAlias(s, DynamicDoryAliases \cup DoryAliases \cup IpaAliases)

\* the bytes the input source holds
SourceBytes == IF cli.input = None THEN stdin ELSE fs0[cli.input[1]][1]

\* the output destination: now, and when the run began
Dest == IF cli.output = None THEN Some(stdout) ELSE fs[cli.output[1]]

Dest0 == IF cli.output = None THEN Some(<<>>) ELSE fs0[cli.output[1]]

IsPrefixOf(s, t) == Len(s) <= Len(t) /\ s = Prefix(t, Len(s))

\* the match expression has produced its value or returned its error
DecodeSettled ==
    human_readable # <<>> \/ result.kind \in {"UnknownScheme", "DeserializationError"}

ObservedOutcome ==
    IF human_readable # <<>> THEN [kind |-> "Text", arg |-> human_readable]
    ELSE result

Finished == pc \in {"returned", "exited"}

----------------------------------------------------------------------------
(* Properties *)

\* C1: the stages run in the order input, resolve, decode, output, each at
\* most once; the stage that fails is the last one to run and the run exits
\* non-zero; a missing --input file wins over anything later (OpenInputFile),
\* and an unknown scheme wins over undecodable bytes (UnknownScheme).
C1_StagesInOrderFirstFailureWins ==
    /\ \E k \in 0..Len(Stages) : trace = Prefix(Stages, k)
    /\ result.kind \in ErrorKinds =>
          /\ Finished
          /\ trace # <<>>
          /\ trace[Len(trace)] = StageOf(result.kind)
    /\ (pc = "exited" /\ result.kind \in ErrorKinds) => exit_code > 0
    /\ (Finished /\ cli.input # None /\ fs0[cli.input[1]] = None) =>
          result = Err("OpenInputFile", cli.input[1])
    /\ (Finished /\ result.kind \notin InputErrors /\ ~KnownScheme(cli.scheme)) =>
          result = Err("UnknownScheme", cli.scheme)

\* a run with a missing input file and an unknown scheme has ended
C1_Witness ==
    /\ pc = "exited"
    /\ cli.input # None
    /\ fs0[cli.input[1]] = None
    /\ ~KnownScheme(cli.scheme)
    /\ result.kind = "OpenInputFile"

\* C2: once the match has run, the arm taken is DynamicDory, Dory or
\* InnerProductArgument exactly when the scheme string is, up to letter case,
\* one of that arm's aliases, and otherwise the run has failed with
\* UnknownScheme carrying the scheme string as given.
C2_ResolveByAliasTable ==
    "resolve" \in Range(trace) =>
        /\ strategy = "DynamicDory" <=> IsAlias(cli.scheme, DynamicDoryAliases)
        /\ strategy = "Dory" <=> IsAlias(cli.scheme, DoryAliases)
        /\ strategy = "InnerProductArgument" <=> IsAlias(cli.scheme, IpaAliases)
        /\ strategy = "_" <=> ~KnownScheme(cli.scheme)
        /\ result = Err("UnknownScheme", cli.scheme) <=> ~KnownScheme(cli.scheme)

\* "Not-A-Scheme", with its upper-case letters, was rejected and carried unchanged
C2_Witness ==
    result = Err("UnknownScheme", <<78,111,116,45,65,45,83,99,104,101,109,101>>)

\* C3: a run that failed in input acquisition, scheme resolution or decoding
\* has left every file as it was and has sent nothing to standard output.
C3_EarlyFailureLeavesOutput ==
    result.kind \in EarlyErrors =>
        /\ fs = fs0
        /\ stdout = <<>>
        /\ stdout_buf = <<>>

\* a decode failure with --output naming an existing, non-empty file
C3_Witness ==
    /\ pc = "exited"
    /\ result.kind = "DeserializationError"
    /\ cli.output # None
    /\ fs0[cli.output[1]] \notin {None, Some(<<>>)}

\* C4: a run exits 0 exactly when no stage failed, and then the destination
\* (the --output file, else standard output) holds exactly the rendering of
\* the input bytes decoded under the resolved scheme.
C4_SuccessDeliversExactText ==
    pc = "exited" =>
        /\ exit_code = 0 <=> result = Ok
        /\ result = Ok =>
              Dest = Some(Render(Decode(strategy, SourceBytes)[1]))

\* a run without --output under a resolvable scheme has exited with status 0
C4_Witness ==
    /\ pc = "exited"
    /\ exit_code = 0
    /\ cli.output = None
    /\ stdout = human_readable

\* C5: the error names the operation that failed and carries the operator's
\* own path: open/read of --input give OpenInputFile/ReadInputFile with the
\* input path, ReadStdin only without --input; create/write of --output give
\* CreateOutputFile/WriteOutputFile with the output path, WriteStdout only
\* without --output.
C5_ErrorNamesOperation ==
    /\ failed_op = "open" <=> result.kind = "OpenInputFile"
    /\ failed_op = "read" <=> result.kind = "ReadInputFile"
    /\ failed_op = "stdin_read" <=> result.kind = "ReadStdin"
    /\ failed_op = "create" <=> result.kind = "CreateOutputFile"
    /\ failed_op = "write" <=> result.kind = "WriteOutputFile"
    /\ failed_op = "stdout_write" <=> result.kind = "WriteStdout"
    /\ result.kind \in {"OpenInputFile", "ReadInputFile"} =>
          cli.input # None /\ result.arg = cli.input[1]
    /\ result.kind = "ReadStdin" => cli.input = None /\ result.arg = <<>>
    /\ result.kind \in {"CreateOutputFile", "WriteOutputFile"} =>
          cli.output # None /\ result.arg = cli.output[1]
    /\ result.kind = "WriteStdout" => cli.output = None /\ result.arg = <<>>

\* creating the output file failed in a run that read its input from a file
C5_Witness ==
    /\ pc = "exited"
    /\ failed_op = "create"
    /\ cli.input # None
    /\ cli.input # cli.output
    /\ result = Err("CreateOutputFile", cli.output[1])

\* C6 as stated: once the match has produced its value or its error, every
\* scheme string equal to the run's up to letter case gives, on the same
\* bytes, the same error or the same text.
C6_SameOutcomeUpToCase ==
    DecodeSettled =>
        \A s2 \in SchemeStrings :
            EqIgnoreCase(s2, cli.scheme) =>
                LET other == DecodeOutcome(s2, SourceBytes)
                IN  /\ other.kind = ObservedOutcome.kind
                    /\ other.arg = ObservedOutcome.arg

\* C6, amended: what the run's match produced is the function DecodeOutcome of
\* the source's bytes and the scheme string, whichever source they came from;
\* every scheme string equal to the run's up to letter case gives the same
\* kind of outcome on the same bytes, with the same text or the same
\* DeserializationError, while UnknownScheme carries each run's own string.
C6_SameOutcomeUpToCaseButPayload ==
    DecodeSettled =>
        LET mine == DecodeOutcome(cli.scheme, SourceBytes)
        IN  /\ ObservedOutcome.kind = mine.kind
            /\ ObservedOutcome.arg = mine.arg
            /\ \A s2 \in {s \in SchemeStrings : EqIgnoreCase(s, cli.scheme)} :
                  LET other == DecodeOutcome(s2, SourceBytes)
                  IN  /\ other.kind = mine.kind
                      /\ IF other.kind = "UnknownScheme"
                         THEN other.arg = s2 /\ mine.arg = cli.scheme
                         ELSE other.arg = mine.arg

\* bytes read from a file were rendered under the scheme typed as "DORY"
C6_Witness ==
    /\ pc = "exited"
    /\ cli.scheme = <<68,79,82,89>>
    /\ cli.input # None
    /\ human_readable # <<>>

\* C7 as stated: the destination always holds what it held when the run began
\* or the complete rendered text.
C7_OutputAtomic ==
    \/ Dest = Dest0
    \/ human_readable # <<>> /\ Dest = Some(human_readable)

\* C7, amended: the destination always holds what it held when the run began
\* or a prefix, possibly empty, of the rendered text; an --output file holds
\* the complete text once the write has succeeded.
C7_OutputPrefixOfText ==
    /\ \/ Dest = Dest0
       \/ /\ human_readable # <<>>
          /\ Dest # None
          /\ IsPrefixOf(Dest[1], human_readable)
    /\ (cli.output # None /\ result = Ok) => Dest = Some(human_readable)

\* the --output file, not empty before, has been truncated and not yet written
C7_Witness ==
    /\ pc = "output_created"
    /\ fs0[cli.output[1]] \notin {None, Some(<<>>)}
    /\ fs[cli.output[1]] = Some(<<>>)

\* C8: after a failed write to the created --output file the run has returned
\* WriteOutputFile with the output path, exits non-zero, and the file is
\* still there holding a proper prefix of the rendered text.
C8_FailedWriteLeavesFile ==
    failed_op = "write" =>
        /\ Finished
        /\ result = Err("WriteOutputFile", cli.output[1])
        /\ pc = "exited" => exit_code > 0
        /\ fs[cli.output[1]] # None
        /\ Len(fs[cli.output[1]][1]) < Len(human_readable)
        /\ IsPrefixOf(fs[cli.output[1]][1], human_readable)

\* the write failed part-way and the process has exited
C8_Witness ==
    /\ pc = "exited"
    /\ failed_op = "write"
    /\ fs[cli.output[1]] \notin {None, Some(<<>>)}

\* C9: at most one File is open; the input File only between open and the end
\* of the read, the output File only between create and the end of the write
\* and only once the text is rendered; none in any other position of main.
C9_HandlesScoped ==
    /\ Cardinality(handles) <= 1
    /\ \A h \in handles :
          /\ h[1] = "input" => pc = "input_opened"
          /\ h[1] = "output" =>
                /\ pc = "output_created"
                /\ "decode" \in Range(trace)
                /\ human_readable # <<>>
    /\ pc \notin {"input_opened", "output_created"} => handles = {}

\* the read of an opened input file failed and the process has exited
C9_Witness ==
    /\ pc = "exited"
    /\ failed_op = "read"
    /\ handles = {}

\* C10: no file changes before the input is fully buffered; with --input and
\* --output naming the same file, a successful run leaves in it the rendering
\* of its previous bytes and an input, resolution or decode failure leaves
\* its bytes as they were.
C10_InputBufferedBeforeOutput ==
    /\ fs # fs0 => "output" \in Range(trace) /\ input_data = SourceBytes
    /\ (cli.input # None /\ cli.input = cli.output) =>
          /\ result = Ok =>
                fs[cli.input[1]] =
                    Some(Render(Decode(strategy, fs0[cli.input[1]][1])[1]))
          /\ result.kind \in EarlyErrors => fs[cli.input[1]] = fs0[cli.input[1]]

\* a run whose --input and --output are the same file has succeeded
C10_Witness ==
    /\ pc = "exited"
    /\ result = Ok
    /\ cli.input # None
    /\ cli.input = cli.output
    /\ fs0[cli.input[1]] # fs[cli.input[1]]

====
